---------------------------- MODULE Spec2Model ----------------------------
(***************************************************************************)
(* HemingwayGuard: interception of the Enter key in messaging apps.        *)
(*                                                                         *)
(* The repository holds two realisations of the interception flow:         *)
(*   - the Go program (main, keyboard.Interceptor, the CGEventTap bridge,  *)
(*     accessibility.FocusMonitor, analyzer.Analyzer), impl = "go";        *)
(*   - the Swift component specification (KeyboardInterceptor,             *)
(*     Coordinator), impl = "swift".                                       *)
(* Both run against the same environment: the element the window server    *)
(* has focused, the text of the fields, and the stream of key-down events  *)
(* that flows through the event tap to the focused application.            *)
(***************************************************************************)
EXTENDS Naturals, Sequences, FiniteSets

VARIABLES
    impl,              \* which realisation runs: "go" or "swift"
    \* ---- environment
    worldFocus,        \* element the window server reports as focused
    value,             \* AXValue of every element
    events,            \* key-down events on their way through the event tap
    nextId,            \* number of the next physical key press
    delivered,         \* per press: key-downs that reached the application
    posted,            \* per press: synthetic key-downs posted for it
    writes,            \* per press: AXValue writes issued while it was open
    \* ---- Go: ui.MenuBar, keyboard.Interceptor, accessibility.FocusMonitor
    enabled,           \* MenuBar.enabled
    monitoring,        \* Interceptor.monitoring
    currentElement,    \* FocusMonitor.currentElement
    lastWasTextField,  \* pollLoop's local
    pollPc,            \* position of the pollLoop goroutine
    mainPc,            \* position of the run-loop thread (tap and menu callbacks)
    cur,               \* the event the tap callback is handling
    hText,             \* handler local: text
    analysis,          \* handler local: analysis
    menuVal,           \* menu callback: focusMonitor.IsMonitoring() as read
    \* ---- Swift: FocusMonitor, KeyboardInterceptor, Coordinator, popover
    state,             \* Coordinator.state
    isIntercepting,    \* KeyboardInterceptor.isIntercepting
    focusedElement,    \* FocusMonitor.focusedElement
    seenFocus,         \* the element of the last focus notification handled
    tasks,             \* the Tasks setupEventTap has started and not finished
    review,            \* the press whose result the popover shows, 0 if none
    \* ---- Go: start and stop of the components
    accessOK,          \* the accessibility capability is granted
    inputOK,           \* the input-monitoring capability is granted
    loops,             \* pollLoop goroutines FocusMonitor.Start has started
    taps,              \* event taps Interceptor.Start has created
    startLog,          \* how the last Start of each component returned
    proc,              \* how far main has come, or how the process ended
    running,           \* FocusMonitor.running
    stopClosed,        \* FocusMonitor.stopCh has been closed
    pollAlive,         \* a pollLoop goroutine exists
    polled,            \* what pollLoop's last read of the focused element gave
    hElem,             \* CurrentText / SetCurrentText local: elem
    cbOpen,            \* a focus callback was called and no blur callback since
    \* ---- bookkeeping about each press (history, read by the properties only)
    inflight,          \* presses whose validation call has started and not returned
    outcome,           \* per press: result of its validation
    decision,          \* per press: what the handler answered / the user chose
    handlerCalls,      \* per press: times the intercept handler ran for it
    blurred,           \* open intercepts whose validation was in flight when blur was reported
    expired,           \* the deadline of the validation in flight has passed
    last               \* the event the tap callback handled last, and its answer

vars == <<impl, worldFocus, value, events, nextId, delivered, posted, writes,
          enabled, monitoring, currentElement, lastWasTextField, pollPc,
          mainPc, cur, hText, analysis, menuVal,
          state, isIntercepting, focusedElement, seenFocus, tasks, review,
          accessOK, inputOK, loops, taps, startLog,
          proc, running, stopClosed, pollAlive, polled, hElem,
          cbOpen,
          inflight, outcome, decision, handlerCalls, blurred, expired, last>>

envVars   == <<worldFocus, value, events, nextId>>
lifeVars  == <<accessOK, inputOK, loops, taps, startLog,
               proc, running, stopClosed, pollAlive, polled, hElem,
               cbOpen>>
goVars    == <<enabled, monitoring, currentElement, lastWasTextField, pollPc,
               mainPc, cur, hText, analysis, menuVal>>
swVars    == <<state, isIntercepting, focusedElement, seenFocus, tasks, review>>
histVars  == <<delivered, posted, writes, inflight, outcome, decision,
               handlerCalls, blurred, expired, last>>

-----------------------------------------------------------------------------
(* Bounds of the model. *)
MaxPresses == 2     \* physical key presses in one behaviour
MaxQueue   == 1     \* key-down events waiting at the tap
ExtraWords == 2     \* words beyond MaxWords in the analyzer's inputs
MaxTaps    == 2     \* event taps created in one behaviour

(* Program constants. *)
KeyCodeReturn   == 36
KeyCodeEnter    == 76
KeyCodeOther    == 0      \* some key that is neither Return nor Enter
MaxWords        == 100
SuggestionWords == 50

Min(a, b) == IF a < b THEN a ELSE b
Max(a, b) == IF a > b THEN a ELSE b
(* The per-press counters tell none, once, more than once. *)
Bump(n)   == IF n = 0 THEN 1 ELSE 2

Ids == 1..MaxPresses
None == "none"

-----------------------------------------------------------------------------
(* Text: a string is a sequence of one-character strings. *)

IsSpace(c) == c \in {" ", "\n", "\t"}

ToLowerChar(c) ==
    CASE c = "W" -> "w" [] c = "A" -> "a" [] c = "S" -> "s"
      [] c = "E" -> "e" [] c = "R" -> "r" [] c = "B" -> "b"
      [] c = "N" -> "n" [] c = "I" -> "i" [] c = "G" -> "g"
      [] c = "O" -> "o" [] c = "K" -> "k" [] OTHER -> c

ToLower(s) == [i \in 1..Len(s) |-> ToLowerChar(s[i])]

Contains(s, pat) ==
    \E i \in 1..(Len(s) + 1) :
        /\ i + Len(pat) - 1 <= Len(s)
        /\ \A j \in 1..Len(pat) : s[i + j - 1] = pat[j]

TrimSpace(s) ==
    LET keep == {i \in 1..Len(s) : ~IsSpace(s[i])}
    IN  IF keep = {} THEN <<>>
        ELSE LET lo == CHOOSE i \in keep : \A j \in 1..(i - 1) : IsSpace(s[j])
                 hi == CHOOSE i \in keep : \A j \in (i + 1)..Len(s) : IsSpace(s[j])
             IN  SubSeq(s, lo, hi)

(* The members of S within lo..hi, in increasing order. *)
RECURSIVE Sorted(_, _, _)
Sorted(S, lo, hi) ==
    IF lo > hi THEN <<>>
    ELSE IF lo = hi THEN (IF lo \in S THEN <<lo>> ELSE <<>>)
    ELSE LET mid == (lo + hi) \div 2
         IN  Sorted(S, lo, mid) \o Sorted(S, mid + 1, hi)

(* strings.Fields: the maximal runs of non-space characters, in order. *)
WordStarts(s) ==
    {i \in 1..Len(s) : ~IsSpace(s[i]) /\ (i = 1 \/ IsSpace(s[i - 1]))}

WordEnds(s) ==
    {i \in 1..Len(s) : ~IsSpace(s[i]) /\ (i = Len(s) \/ IsSpace(s[i + 1]))}

Fields(s) ==
    LET starts == Sorted(WordStarts(s), 1, Len(s))
        ends   == Sorted(WordEnds(s), 1, Len(s))
    IN  [k \in 1..Len(starts) |-> SubSeq(s, starts[k], ends[k])]

(* strings.Join of ws[lo..hi]. *)
RECURSIVE JoinRange(_, _, _, _)
JoinRange(ws, lo, hi, sep) ==
    IF lo > hi THEN <<>>
    ELSE IF lo = hi THEN ws[lo]
    ELSE LET mid == (lo + hi) \div 2
         IN  JoinRange(ws, lo, mid, sep) \o sep \o JoinRange(ws, mid + 1, hi, sep)

Join(ws, sep) == JoinRange(ws, 1, Len(ws), sep)

(* n one-letter words separated by single spaces. *)
WordsText(n) == [i \in 1..(IF n = 0 THEN 0 ELSE 2 * n - 1) |->
                    IF i % 2 = 1 THEN "w" ELSE " "]

Empty    == <<>>
Ok       == <<"o", "k">>
LongText == WordsText(MaxWords + 1)

Texts == {Empty, Ok, LongText}

-----------------------------------------------------------------------------
(* analyzer.Analyzer *)

PassiveIndicators ==
    { <<"w","a","s">>, <<"w","e","r","e">>, <<"b","e","e","n">>,
      <<"b","e","i","n","g">>, <<"i","s"," ","b","e","i","n","g">>,
      <<"a","r","e"," ","b","e","i","n","g">> }

(* A length test that already flags a message of MaxWords words. *)
TooLongInclusive(wordCount) == wordCount >= MaxWords

(* mockAnalysis: if wordCount > 100 *)
TooLong(wordCount) == wordCount > MaxWords

mockAnalysis(text) ==
    LET words     == Fields(text)
        wordCount == Len(words)
        tooLong   == TooLong(wordCount)
        lowerText == ToLower(text)
        passive   == \E ind \in PassiveIndicators :
                        LET pat == <<" ">> \o ind \o <<" ">>
                        IN  Contains(lowerText, pat)
        approved  == ~tooLong
        issues    == (IF tooLong THEN <<"message is quite long">> ELSE <<>>)
                     \o (IF passive THEN <<"possible passive voice detected">>
                                    ELSE <<>>)
    IN  [ approved   |-> approved,
          wordCount  |-> wordCount,
          readTime   |-> Max(1, (wordCount * 60) \div 200),
          gradeTenths |-> Min(wordCount, 120),
          issues     |-> issues,
          suggestion |-> IF ~approved /\ wordCount > MaxWords
                         THEN Join(SubSeq(words, 1, SuggestionWords), <<" ">>)
                              \o <<".", ".", ".">>
                         ELSE <<>> ]

Analyze(text) ==
    IF TrimSpace(text) = <<>>
    THEN [ approved |-> TRUE, wordCount |-> 0, readTime |-> 0,
           gradeTenths |-> 0, issues |-> <<>>, suggestion |-> <<>> ]
    ELSE mockAnalysis(text)

(* The analysis of each text a field can hold. *)
AnalysisOf == [t \in Texts |-> Analyze(t)]

-----------------------------------------------------------------------------
(* Environment: focusable elements and key events. *)

Elements == {"msgField", "slackField", "finderField"}

(* More elements of Messages: a password field, which reports the role   *)
(* AXTextField with the subrole AXSecureTextField, and a button.          *)
FocusElements == Elements \cup {"msgSecure", "msgButton"}

BundleID(e) ==
    CASE e \in {"msgField", "msgSecure", "msgButton"} -> "com.apple.MobileSMS"
      [] e = "slackField" -> "com.tinyspeck.slackmacgap"
      [] OTHER            -> "com.apple.finder"

Role(e) ==
    CASE e = "msgField"  -> "AXTextArea"
      [] e = "msgButton" -> "AXButton"
      [] OTHER           -> "AXTextField"

Secure(e) == e = "msgSecure"

TargetBundleIDs ==
    {"com.apple.MobileSMS", "com.tinyspeck.slackmacgap", "com.hnc.Discord"}

(* A role test that accepts every element. *)
IsTextFieldAny(e) == TRUE

IsTextField(e) == Role(e) \in {"AXTextField", "AXTextArea"}

Modifiers    == {"shift", "command", "control", "option"}
ModifierSets == SUBSET Modifiers
KeyCodes     == {KeyCodeReturn, KeyCodeEnter, KeyCodeOther}

NoEvent == [id |-> 0, key |-> 0, mods |-> {}, synth |-> FALSE, late |-> FALSE]

(* What the tap callback did with an event: whether the intercept handler *)
(* was invoked for it, and the callback's answer.                         *)
Handled(e, invoked, ans) == [ev |-> e, handler |-> invoked, answer |-> ans]

NoAnswer == Handled(NoEvent, FALSE, "none")

IsPlainTrigger(e) == e.key \in {KeyCodeReturn, KeyCodeEnter} /\ e.mods = {}

(* A key press is being held back: a handler is running for it. *)
GoInterceptOpen == mainPc \in {"handler", "analyze", "decide"}

(* A swallowed key press waits for its Task or for the user. *)
SwiftInterceptOpen == tasks # {} \/ review.id # 0

InterceptOpen ==
    \/ impl = "go" /\ GoInterceptOpen
    \/ impl = "swift" /\ SwiftInterceptOpen

(* The user moves the focus to another element. *)
ChangeFocus(e) ==
    /\ e # worldFocus
    /\ worldFocus' = e
    /\ UNCHANGED <<impl, lifeVars, swVars, value, events, nextId, goVars, histVars>>

(* The user presses a key: a key-down event enters the event stream. *)
PressKey(k, m) ==
    /\ nextId <= MaxPresses
    /\ Len(events) < MaxQueue
    /\ LET plain == k \in {KeyCodeReturn, KeyCodeEnter} /\ m = {}
           e == [id |-> nextId, key |-> k, mods |-> m, synth |-> FALSE,
                 late |-> plain /\ InterceptOpen]
       IN  events' = Append(events, e)
    /\ nextId' = nextId + 1
    /\ UNCHANGED <<impl, lifeVars, swVars, worldFocus, value, goVars, histVars>>

(* The event reaches the focused application. *)
Deliver(e) == delivered' = [delivered EXCEPT ![e.id] = Bump(@)]

-----------------------------------------------------------------------------
(* Go: the CGEventTap bridge and keyboard.Interceptor. *)

(* A run loop that would start a callback while another one is running. *)
RunLoopAlwaysFree == TRUE

(* The run loop hands the tap one event at a time: the callback of the next *)
(* event starts when the previous callback has returned.                    *)
RunLoopFree == mainPc = "idle"

(* The process has neither exited nor panicked. *)
ProcessAlive == proc \notin {"exited", "panicked", "crashed"}

(* interceptor.Start has succeeded: the event callback is registered, the *)
(* tap is enabled, and main goes on to show the menu and run the app.     *)
TapInstalled == proc = "running"

(* A key test that lets every key code through to the callback. *)
IsEnterKeyAny(keyCode) == TRUE

(* goEventCallback: only Enter/Return keys are processed. *)
IsEnterKey(keyCode) == keyCode = KeyCodeReturn \/ keyCode = KeyCodeEnter

(* A modifier check without the Shift branch. *)
AllowsModifiedNoShift(mods) ==
    "command" \in mods \/ "control" \in mods \/ "option" \in mods

(* handleKeyEvent: modified Enter keys are allowed. *)
AllowsModified(mods) ==
    \/ "command" \in mods \/ "control" \in mods \/ "option" \in mods
    \/ "shift" \in mods

(* goEventCallback and handleKeyEvent up to the call of the handler. *)
TapDispatch ==
    /\ impl = "go"
    /\ TapInstalled
    /\ RunLoopFree
    /\ events # <<>>
    /\ LET e == Head(events)
           pass == \/ ~IsEnterKey(e.key)
                   \/ AllowsModified(e.mods)
                   \/ ~monitoring
       IN  /\ events' = Tail(events)
           /\ IF pass
              THEN /\ Deliver(e)
                   /\ last' = Handled(e, FALSE, "pass")
                   /\ UNCHANGED <<mainPc, cur, handlerCalls>>
              ELSE /\ mainPc' = "handler"
                   /\ cur' = e
                   /\ handlerCalls' = [handlerCalls EXCEPT ![e.id] = Bump(@)]
                   /\ last' = Handled(e, TRUE, "pending")
                   /\ UNCHANGED delivered
    /\ UNCHANGED <<impl, lifeVars, swVars, worldFocus, value, nextId, posted, writes,
                   enabled, monitoring, currentElement, lastWasTextField,
                   pollPc, hText, analysis, menuVal,
                   inflight, outcome, decision, blurred, expired>>

(* FocusMonitor.CurrentText *)
CurrentText == IF currentElement = None THEN <<>> ELSE value[currentElement]

(* The handler's answer goes back through handleKeyEvent and goEventCallback: *)
(* allow returns the event to the stream, anything else swallows it.         *)
HandlerAnswers(allow) ==
    /\ decision' = [decision EXCEPT ![cur.id] = IF allow THEN "release" ELSE "hold"]
    /\ IF allow THEN Deliver(cur) ELSE UNCHANGED delivered
    /\ last' = [last EXCEPT !.answer = IF allow THEN "pass" ELSE "swallow"]
    /\ blurred' = blurred \ {cur.id}
    /\ mainPc' = "idle"
    /\ cur' = NoEvent
    /\ hText' = <<>>
    /\ analysis' = None

(* main's handler: text := focusMonitor.CurrentText(); empty text is allowed. *)
HandlerReadText ==
    /\ impl = "go"
    /\ mainPc = "handler"
    /\ IF CurrentText = <<>>
       THEN /\ HandlerAnswers(TRUE)
            /\ UNCHANGED inflight
       ELSE /\ hText' = CurrentText
            /\ mainPc' = "analyze"
            /\ inflight' = inflight \cup {cur.id}
            /\ UNCHANGED <<cur, analysis, decision, delivered, last, blurred>>
    /\ UNCHANGED <<impl, lifeVars, swVars, envVars, posted, writes, enabled, monitoring,
                   currentElement, lastWasTextField, pollPc, menuVal,
                   outcome, handlerCalls, expired>>

(* main's handler: analysis, err := hemingway.Analyze(ctx, text, appCtx). *)
(* Analyze does not look at ctx and returns no error.                      *)
HandlerAnalyze ==
    /\ impl = "go"
    /\ mainPc = "analyze"
    /\ analysis' = AnalysisOf[hText]
    /\ outcome' = [outcome EXCEPT ![cur.id] =
                      IF analysis'.approved THEN "clear" ELSE "flagged"]
    /\ inflight' = inflight \ {cur.id}
    /\ expired' = FALSE
    /\ mainPc' = "decide"
    /\ UNCHANGED <<impl, lifeVars, swVars, envVars, delivered, posted, writes, enabled, monitoring,
                   currentElement, lastWasTextField, pollPc, cur, hText, menuVal,
                   decision, handlerCalls, blurred, last>>

(* A handler that swallows whatever the analysis says. *)
HandlerVerdictHold(a) == FALSE

(* main's handler: approved returns true; with issues it logs and returns true. *)
HandlerVerdict(a) == IF a.approved THEN TRUE ELSE TRUE

HandlerReturn ==
    /\ impl = "go"
    /\ mainPc = "decide"
    /\ HandlerAnswers(HandlerVerdict(analysis))
    /\ UNCHANGED <<impl, lifeVars, swVars, envVars, posted, writes, enabled, monitoring,
                   currentElement, lastWasTextField, pollPc, menuVal,
                   inflight, outcome, handlerCalls, expired>>


-----------------------------------------------------------------------------
(* Go: accessibility.FocusMonitor.pollLoop and main's focus callbacks. *)

IsTarget(e) == BundleID(e) \in TargetBundleIDs

(* A read error that is handled as a blur. *)
OnReadErrorBlur ==
    /\ currentElement' = None
    /\ pollPc' = "onBlur"
    /\ UNCHANGED <<lastWasTextField, hElem, cbOpen>>

(* focused, err := systemElement.FocusedElement(); if err != nil: continue *)
OnReadError ==
    UNCHANGED <<currentElement, pollPc, lastWasTextField, hElem, cbOpen>>

(* A transition test that forgets the last tick. *)
EntersFieldAlways(isField, was) == isField

(* if isTarget && isTextField && !lastWasTextField *)
EntersField(isField, was) == isField /\ ~was

(* One tick up to the callbacks: FocusedElement() may fail (continue);       *)
(* otherwise a transition into or out of a monitored text field is detected. *)
(* The blur branch releases the element, also under a caller that holds it.  *)
PollRead(readable) ==
    LET focused == worldFocus
        isField == IsTarget(focused) /\ IsTextField(focused)
    IN  IF ~readable
        THEN OnReadError
        ELSE IF EntersField(isField, lastWasTextField)
        THEN /\ currentElement' = focused
             /\ pollPc' = "onFocus"
             /\ cbOpen' = TRUE
             /\ UNCHANGED <<lastWasTextField, hElem>>
        ELSE IF lastWasTextField /\ ~isField
        THEN /\ currentElement' = None
             /\ pollPc' = "onBlur"
             /\ cbOpen' = FALSE
             /\ hElem' = IF hElem # None /\ hElem = currentElement
                          THEN "released" ELSE hElem
             /\ UNCHANGED lastWasTextField
        ELSE /\ lastWasTextField' = isField
             /\ UNCHANGED <<currentElement, pollPc, hElem, cbOpen>>

PollFrame ==
    UNCHANGED <<impl, swVars, envVars, histVars, enabled, monitoring,
                mainPc, cur, hText, analysis, menuVal,
                accessOK, inputOK, loops, taps, startLog, proc, running, stopClosed, pollAlive>>

PollTick ==
    /\ impl = "go"
    /\ pollAlive /\ ProcessAlive
    /\ pollPc = "wait"
    /\ \E readable \in BOOLEAN : PollRead(readable)
    /\ PollFrame
    /\ UNCHANGED polled

(* The same tick, with the result of the read kept for the properties. *)
PollTickTraced ==
    /\ impl = "go"
    /\ pollAlive /\ ProcessAlive
    /\ pollPc = "wait"
    /\ \E readable \in BOOLEAN :
          /\ PollRead(readable)
          /\ polled' = IF readable THEN worldFocus ELSE "unreadable"
    /\ PollFrame

(* OnTextFieldFocus callback: if menuBar.IsEnabled() ... *)
PollOnFocus ==
    /\ impl = "go"
    /\ ProcessAlive
    /\ pollPc = "onFocus"
    /\ IF enabled
       THEN /\ pollPc' = "setMonitoring"
            /\ UNCHANGED lastWasTextField
       ELSE /\ pollPc' = "wait"
            /\ lastWasTextField' = TRUE
    /\ UNCHANGED <<impl, lifeVars, swVars, envVars, histVars, enabled, monitoring, currentElement,
                   mainPc, cur, hText, analysis, menuVal>>

(* ... interceptor.SetMonitoring(true); then lastWasTextField = true. *)
PollSetMonitoring ==
    /\ impl = "go"
    /\ ProcessAlive
    /\ pollPc = "setMonitoring"
    /\ monitoring' = TRUE
    /\ lastWasTextField' = TRUE
    /\ pollPc' = "wait"
    /\ UNCHANGED <<impl, lifeVars, swVars, envVars, histVars, enabled, currentElement,
                   mainPc, cur, hText, analysis, menuVal>>

(* OnTextFieldBlur callback: interceptor.SetMonitoring(false). *)
PollOnBlur ==
    /\ impl = "go"
    /\ ProcessAlive
    /\ pollPc = "onBlur"
    /\ monitoring' = FALSE
    /\ lastWasTextField' = FALSE
    /\ pollPc' = "wait"
    /\ blurred' = blurred \cup inflight
    /\ UNCHANGED <<impl, lifeVars, swVars, envVars, enabled, currentElement,
                   mainPc, cur, hText, analysis, menuVal,
                   delivered, posted, writes, inflight, outcome, decision,
                   handlerCalls, expired, last>>

-----------------------------------------------------------------------------
(* Go: main's menu callback, MenuActionToggleEnabled. *)

MenuToggle ==
    /\ impl = "go"
    /\ TapInstalled
    /\ RunLoopFree
    /\ enabled' = ~enabled
    /\ mainPc' = IF enabled' THEN "menuRead" ELSE "menuOff"
    /\ UNCHANGED <<impl, lifeVars, swVars, envVars, histVars, monitoring, currentElement,
                   lastWasTextField, pollPc, cur, hText, analysis, menuVal>>

(* focusMonitor.IsMonitoring() *)
MenuReadFocus ==
    /\ impl = "go"
    /\ mainPc = "menuRead"
    /\ menuVal' = (currentElement # None)
    /\ mainPc' = "menuSet"
    /\ UNCHANGED <<impl, lifeVars, swVars, envVars, histVars, enabled, monitoring, currentElement,
                   lastWasTextField, pollPc, cur, hText, analysis>>

(* interceptor.SetMonitoring(<value read>) / interceptor.SetMonitoring(false) *)
MenuSetMonitoring ==
    /\ impl = "go"
    /\ mainPc \in {"menuSet", "menuOff"}
    /\ monitoring' = IF mainPc = "menuSet" THEN menuVal ELSE FALSE
    /\ menuVal' = FALSE
    /\ mainPc' = "idle"
    /\ UNCHANGED <<impl, lifeVars, swVars, envVars, histVars, enabled, currentElement,
                   lastWasTextField, pollPc, cur, hText, analysis>>

-----------------------------------------------------------------------------
(* Time: the deadline of a validation that is in flight passes. *)
DeadlineExpires ==
    /\ inflight # {}
    /\ ~expired
    /\ expired' = TRUE
    /\ UNCHANGED <<impl, lifeVars, swVars, envVars, goVars, delivered, posted, writes,
                   inflight, outcome, decision, handlerCalls, blurred, last>>

-----------------------------------------------------------------------------
(* Go: main starts the components. *)

(* FocusMonitor.Start returns ErrAccessibilityNotEnabled: it was not      *)
(* running and there is no system-wide element.                           *)
StartFails == ~running /\ ~accessOK

(* Start without the test of m.running. *)
FocusMonitorStartRespawn ==
    /\ running' = TRUE
    /\ startLog' = [startLog EXCEPT !.fm = IF running THEN "already"
                                           ELSE IF accessOK THEN "started" ELSE "error"]
    /\ IF accessOK
       THEN /\ pollAlive' = TRUE
            /\ loops' = loops + 1
            /\ lastWasTextField' = FALSE
            /\ pollPc' = "wait"
       ELSE UNCHANGED <<pollAlive, loops, lastWasTextField, pollPc>>

(* FocusMonitor.Start: running is set before the system-wide element is   *)
(* asked for; a new pollLoop starts with its own lastWasTextField.        *)
FocusMonitorStart ==
    IF running
    THEN /\ startLog' = [startLog EXCEPT !.fm = "already"]
         /\ UNCHANGED <<running, pollAlive, loops, lastWasTextField, pollPc>>
    ELSE /\ running' = TRUE
         /\ IF accessOK
            THEN /\ pollAlive' = TRUE
                 /\ loops' = loops + 1
                 /\ lastWasTextField' = FALSE
                 /\ pollPc' = "wait"
                 /\ startLog' = [startLog EXCEPT !.fm = "started"]
            ELSE /\ startLog' = [startLog EXCEPT !.fm = "error"]
                 /\ UNCHANGED <<pollAlive, loops, lastWasTextField, pollPc>>

(* main: focusMonitor.Start(ctx); log.Fatalf on an error. *)
MainStartFocus ==
    /\ impl = "go"
    /\ proc = "init"
    /\ FocusMonitorStart
    /\ proc' = IF StartFails THEN "exited" ELSE "focusStarted"
    /\ UNCHANGED <<impl, swVars, envVars, histVars, cbOpen, accessOK, inputOK, taps,
                   stopClosed, polled, hElem, enabled, monitoring,
                   currentElement, mainPc, cur, hText, analysis, menuVal>>

(* Interceptor.Start past the eventTap test: NewEventTap, and on success  *)
(* the tap is stored, the callback registered and the tap started.        *)
InterceptorStartTap ==
    IF inputOK
    THEN /\ taps' = taps + 1
         /\ startLog' = [startLog EXCEPT !.ic = "started"]
    ELSE /\ startLog' = [startLog EXCEPT !.ic = "error"]
         /\ UNCHANGED taps

(* main: interceptor.Start(ctx); NewEventTap fails without input          *)
(* monitoring and main ends the process with log.Fatalf, the poll loop    *)
(* with it.                                                               *)
MainStartInterceptor ==
    /\ impl = "go"
    /\ proc = "focusStarted"
    /\ InterceptorStartTap
    /\ IF inputOK
       THEN proc' = "running" /\ UNCHANGED pollAlive
       ELSE proc' = "exited" /\ pollAlive' = FALSE
    /\ UNCHANGED <<impl, swVars, envVars, histVars, goVars, cbOpen, accessOK, inputOK, loops,
                   running, stopClosed, polled, hElem>>

(* Without the tap a key-down goes straight to the application. *)
DeliverUntapped ==
    /\ impl = "go"
    /\ ~TapInstalled
    /\ events # <<>>
    /\ events' = Tail(events)
    /\ Deliver(Head(events))
    /\ UNCHANGED <<impl, lifeVars, swVars, goVars, worldFocus, value, nextId,
                   posted, writes, inflight, outcome, decision, handlerCalls,
                   blurred, expired, last>>

-----------------------------------------------------------------------------
(* Go: the FocusMonitor with its methods called by its owner. *)

(* Start. A Start that would run a second pollLoop beside one that has not *)
(* yet seen the closed stopCh is left out.                                 *)
FMStart ==
    /\ impl = "go"
    /\ ProcessAlive
    /\ running \/ ~pollAlive
    /\ FocusMonitorStart
    /\ UNCHANGED <<impl, swVars, envVars, histVars, cbOpen, accessOK, inputOK, taps, proc,
                   stopClosed, polled, hElem, enabled, monitoring,
                   currentElement, mainPc, cur, hText, analysis, menuVal>>

(* The user grants the accessibility permission: SystemWideElement       *)
(* returns an element from now on.                                        *)
GrantAccessibility ==
    /\ impl = "go"
    /\ ~accessOK
    /\ accessOK' = TRUE
    /\ UNCHANGED <<impl, swVars, envVars, histVars, goVars, cbOpen, inputOK, loops, taps, startLog,
                   proc,
                   running, stopClosed, pollAlive, polled, hElem>>

(* Stop: close(m.stopCh) panics on a channel that is already closed;      *)
(* otherwise running is cleared and the current element released.         *)
FMStop ==
    /\ impl = "go"
    /\ ProcessAlive
    /\ IF ~running
       THEN UNCHANGED <<proc, stopClosed, running, currentElement, hElem>>
       ELSE IF stopClosed
       THEN /\ proc' = "panicked"
            /\ UNCHANGED <<stopClosed, running, currentElement, hElem>>
       ELSE /\ stopClosed' = TRUE
            /\ running' = FALSE
            /\ currentElement' = None
            /\ hElem' = IF hElem # None /\ hElem = currentElement
                         THEN "released" ELSE hElem
            /\ UNCHANGED proc
    /\ UNCHANGED <<impl, swVars, envVars, histVars, cbOpen, accessOK, inputOK,
                   loops, taps, startLog,
                   pollAlive, polled, enabled, monitoring, lastWasTextField,
                   pollPc, mainPc, cur, hText, analysis, menuVal>>

(* pollLoop: case <-m.stopCh: return *)
PollExit ==
    /\ impl = "go"
    /\ pollAlive /\ ProcessAlive
    /\ pollPc = "wait"
    /\ stopClosed
    /\ pollAlive' = FALSE
    /\ UNCHANGED <<impl, swVars, envVars, histVars, goVars, cbOpen, accessOK, inputOK,
                   loops, taps, startLog,
                   proc, running, stopClosed, polled, hElem>>

(* CurrentText / SetCurrentText up to the unlock: elem := m.currentElement; *)
(* a nil element returns at once.                                          *)
GetElement(next) ==
    /\ impl = "go"
    /\ ProcessAlive
    /\ mainPc = "idle"
    /\ hElem' = currentElement
    /\ mainPc' = IF currentElement = None THEN "idle" ELSE next
    /\ UNCHANGED <<impl, swVars, envVars, histVars, cbOpen, accessOK, inputOK,
                   loops, taps, startLog,
                   proc,
                   running, stopClosed, pollAlive, polled, enabled, monitoring,
                   currentElement, lastWasTextField, pollPc, cur, hText,
                   analysis, menuVal>>

(* What a call on a released element can do. *)
ReleasedOutcomes == {"fails", "succeeds", "crashes"}

(* CurrentText: return elem.Value(). On a released element the read gives *)
(* nothing, the text the element had, or stops the process.               *)
CurrentTextValue ==
    /\ impl = "go"
    /\ ProcessAlive
    /\ mainPc = "value"
    /\ mainPc' = "idle"
    /\ hElem' = None
    /\ IF hElem = "released"
       THEN \E o \in ReleasedOutcomes :
              /\ proc' = IF o = "crashes" THEN "crashed" ELSE proc
              /\ hText' = IF o = "succeeds" THEN Ok ELSE <<>>
       ELSE /\ hText' = value[hElem]
            /\ UNCHANGED proc
    /\ UNCHANGED <<impl, swVars, envVars, histVars, cbOpen, accessOK, inputOK,
                   loops, taps, startLog,
                   running, stopClosed, pollAlive, polled, enabled, monitoring,
                   currentElement, lastWasTextField, pollPc, cur,
                   analysis, menuVal>>

(* SetCurrentText: return elem.SetValue(text). *)
SetCurrentTextValue(text) ==
    /\ impl = "go"
    /\ ProcessAlive
    /\ mainPc = "setValue"
    /\ mainPc' = "idle"
    /\ hElem' = None
    /\ IF hElem = "released"
       THEN \E o \in ReleasedOutcomes :
              /\ proc' = IF o = "crashes" THEN "crashed" ELSE proc
              /\ UNCHANGED value
       ELSE /\ value' = [value EXCEPT ![hElem] = text]
            /\ UNCHANGED proc
    /\ UNCHANGED <<impl, swVars, histVars, worldFocus, events, nextId,
                   cbOpen, accessOK, inputOK, loops, taps, startLog,
                   running, stopClosed, pollAlive, polled,
                   enabled, monitoring, currentElement, lastWasTextField,
                   pollPc, cur, hText, analysis, menuVal>>

-----------------------------------------------------------------------------
(* Go: Interceptor.Stop beside a key event that is being delivered. *)

(* goEventCallback up to cb := eventCallback: another key is returned at  *)
(* once, for a trigger key the registered callback has been fetched.      *)
TapFetchCallback ==
    /\ impl = "go"
    /\ TapInstalled
    /\ RunLoopFree
    /\ events # <<>>
    /\ LET e == Head(events)
       IN  /\ events' = Tail(events)
           /\ IF ~IsEnterKey(e.key)
              THEN /\ Deliver(e)
                   /\ last' = Handled(e, FALSE, "pass")
                   /\ UNCHANGED <<mainPc, cur>>
              ELSE /\ mainPc' = "callback"
                   /\ cur' = e
                   /\ UNCHANGED <<delivered, last>>
    /\ UNCHANGED <<impl, lifeVars, swVars, worldFocus, value, nextId, posted, writes,
                   enabled, monitoring, currentElement, lastWasTextField,
                   pollPc, hText, analysis, menuVal, handlerCalls,
                   inflight, outcome, decision, blurred, expired>>

(* cb(keyCode, modifiers): handleKeyEvent reads monitoring and the handler *)
(* under its own lock and calls the handler.                              *)
TapHandleKey ==
    /\ impl = "go"
    /\ ProcessAlive
    /\ mainPc = "callback"
    /\ IF AllowsModified(cur.mods) \/ ~monitoring
       THEN /\ Deliver(cur)
            /\ last' = Handled(cur, FALSE, "pass")
            /\ mainPc' = "idle"
            /\ cur' = NoEvent
            /\ UNCHANGED handlerCalls
       ELSE /\ mainPc' = "handler"
            /\ handlerCalls' = [handlerCalls EXCEPT ![cur.id] = Bump(@)]
            /\ last' = Handled(cur, TRUE, "pending")
            /\ UNCHANGED <<delivered, cur>>
    /\ UNCHANGED <<impl, lifeVars, swVars, envVars, posted, writes,
                   enabled, monitoring, currentElement, lastWasTextField,
                   pollPc, hText, analysis, menuVal,
                   inflight, outcome, decision, blurred, expired>>

(* Interceptor.Start: with an event tap in place it returns nil at once;  *)
(* otherwise a tap is created.                                            *)
InterceptorStart ==
    /\ impl = "go"
    /\ proc \in {"running", "stopped"}
    /\ proc = "running" \/ taps < MaxTaps
    /\ IF proc = "running"
       THEN /\ startLog' = [startLog EXCEPT !.ic = "already"]
            /\ UNCHANGED <<taps, proc>>
       ELSE /\ InterceptorStartTap
            /\ proc' = IF inputOK THEN "running" ELSE proc
    /\ UNCHANGED <<impl, swVars, envVars, histVars, goVars, cbOpen, accessOK, inputOK, loops,
                   running, stopClosed, pollAlive, polled, hElem>>

(* Interceptor.Stop: the context is cancelled, the tap disabled and the   *)
(* event callback cleared; monitoring and the handler are left as they    *)
(* are.                                                                   *)
InterceptorStop ==
    /\ impl = "go"
    /\ proc = "running"
    /\ proc' = "stopped"
    /\ UNCHANGED <<impl, swVars, envVars, histVars, goVars, cbOpen, accessOK, inputOK,
                   loops, taps, startLog,
                   running, stopClosed, pollAlive, polled, hElem>>

(* Interceptor.ReleaseEnter: PostEnterKey posts a Return key press with no *)
(* modifiers to the event stream. It reads no state of the interceptor, so *)
(* the posted key belongs to no press.                                     *)
InterceptorReleaseEnter ==
    /\ impl = "go"
    /\ Len(events) < MaxQueue
    /\ events' = Append(events, [id |-> 0, key |-> KeyCodeReturn, mods |-> {},
                                 synth |-> TRUE, late |-> FALSE])
    /\ UNCHANGED <<impl, lifeVars, worldFocus, value, nextId, goVars, swVars, histVars>>

-----------------------------------------------------------------------------
(* Swift: FocusMonitor.handleFocusChange and the Coordinator's focus         *)
(* transitions IDLE -> MONITORING (focus detected), MONITORING -> IDLE       *)
(* (focus lost).                                                             *)

NoReview == [id |-> 0, suggestion |-> <<>>]

SwiftFocusNotify ==
    /\ impl = "swift"
    /\ seenFocus # worldFocus
    /\ seenFocus' = worldFocus
    /\ LET isField == IsTarget(worldFocus) /\ IsTextField(worldFocus)
       IN  /\ focusedElement' = IF isField THEN worldFocus ELSE focusedElement
           /\ IF state = "idle" /\ isField
              THEN state' = "monitoring" /\ isIntercepting' = TRUE
              ELSE IF state = "monitoring" /\ ~isField
              THEN state' = "idle" /\ isIntercepting' = FALSE
              ELSE UNCHANGED <<state, isIntercepting>>
           /\ blurred' = IF isField THEN blurred ELSE blurred \cup inflight
    /\ UNCHANGED <<impl, lifeVars, envVars, goVars, tasks, review,
                   delivered, posted, writes, inflight, outcome, decision,
                   handlerCalls, expired, last>>

-----------------------------------------------------------------------------
(* Swift: KeyboardInterceptor. *)

(* setupEventTap: Shift+Enter, Cmd+Enter, Ctrl+Enter are returned unchanged. *)
SwiftAllowsModified(mods) ==
    "shift" \in mods \/ "command" \in mods \/ "control" \in mods

(* setupEventTap's closure: an intercepted event starts a Task and is swallowed. *)
SwiftTapDispatch ==
    /\ impl = "swift"
    /\ events # <<>>
    /\ LET e == Head(events)
           pass == \/ ~IsEnterKey(e.key)
                   \/ SwiftAllowsModified(e.mods)
                   \/ ~isIntercepting
       IN  /\ events' = Tail(events)
           /\ IF pass
              THEN /\ Deliver(e)
                   /\ last' = Handled(e, FALSE, "pass")
                   /\ UNCHANGED tasks
              ELSE /\ tasks' = tasks \cup {[ev |-> e, pc |-> "start"]}
                   /\ last' = Handled(e, TRUE, "swallow")
                   /\ UNCHANGED delivered
    /\ UNCHANGED <<impl, lifeVars, worldFocus, value, nextId, goVars, state, isIntercepting,
                   focusedElement, seenFocus, review, posted, writes,
                   inflight, outcome, decision, handlerCalls, blurred, expired>>

(* releaseEnter posts a synthetic Return key-down at the HID tap: it enters *)
(* the event stream ahead of the event tap.                                *)
ReleaseEnter(id) ==
    /\ events' = Append(events, [id |-> id, key |-> KeyCodeReturn,
                                 mods |-> {}, synth |-> TRUE,
                                 late |-> FALSE])
    /\ posted' = [posted EXCEPT ![id] = Bump(@)]

-----------------------------------------------------------------------------
(* Swift: Coordinator. *)

(* FocusMonitor.getCurrentText() ?? "" *)
SwiftCurrentText == IF focusedElement = None THEN <<>> ELSE value[focusedElement]

(* The Task runs the handler: handleEnterPressed up to the await. *)
SwiftTaskStart(t) ==
    /\ impl = "swift"
    /\ t \in tasks
    /\ t.pc = "start"
    /\ handlerCalls' = [handlerCalls EXCEPT ![t.ev.id] = Bump(@)]
    /\ IF state # "monitoring"
       THEN \* guard fails: return true, and the Task releases the key
            /\ tasks' = tasks \ {t}
            /\ ReleaseEnter(t.ev.id)
            /\ decision' = [decision EXCEPT ![t.ev.id] = "release"]
            /\ blurred' = blurred \ {t.ev.id}
            /\ UNCHANGED <<state, inflight>>
       ELSE /\ state' = "analyzing"
            /\ tasks' = (tasks \ {t}) \cup
                        {[ev |-> t.ev, pc |-> "awaiting", text |-> SwiftCurrentText]}
            /\ inflight' = inflight \cup {t.ev.id}
            /\ UNCHANGED <<events, posted, decision, blurred>>
    /\ UNCHANGED <<impl, lifeVars, worldFocus, value, nextId, goVars, isIntercepting,
                   focusedElement, seenFocus, review, delivered, writes,
                   outcome, expired, last>>

(* What analyzer.analyze can answer: the result of the LLM, or a throw. *)
SwiftResults ==
    { [kind |-> "clear",   suggestion |-> <<>>],
      [kind |-> "flagged", suggestion |-> Ok],
      [kind |-> "failed",  suggestion |-> <<>>] }

(* handleEnterPressed after the await, and the rest of the Task. *)
SwiftAnalyzeReturns(t, r) ==
    /\ impl = "swift"
    /\ t \in tasks
    /\ t.pc = "awaiting"
    /\ tasks' = tasks \ {t}
    /\ inflight' = inflight \ {t.ev.id}
    /\ expired' = FALSE
    /\ outcome' = [outcome EXCEPT ![t.ev.id] = r.kind]
    /\ blurred' = IF r.kind = "flagged" THEN blurred ELSE blurred \ {t.ev.id}
    /\ CASE r.kind = "clear" ->
              /\ state' = "releasing"
              /\ ReleaseEnter(t.ev.id)
              /\ decision' = [decision EXCEPT ![t.ev.id] = "release"]
              /\ UNCHANGED review
         [] r.kind = "flagged" ->
              /\ state' = "reviewing"
              /\ review' = [id |-> t.ev.id, suggestion |-> r.suggestion]
              /\ decision' = [decision EXCEPT ![t.ev.id] = "hold"]
              /\ UNCHANGED <<events, posted>>
         [] r.kind = "failed" ->
              /\ state' = "error"
              /\ ReleaseEnter(t.ev.id)
              /\ decision' = [decision EXCEPT ![t.ev.id] = "release"]
              /\ UNCHANGED review
    /\ UNCHANGED <<impl, lifeVars, worldFocus, value, nextId, goVars, isIntercepting,
                   focusedElement, seenFocus, delivered, writes, handlerCalls,
                   last>>

(* FocusMonitor.setCurrentText: the write may be rejected. *)
SetCurrentText(text, accepted) ==
    IF focusedElement # None /\ accepted
    THEN value' = [value EXCEPT ![focusedElement] = text]
    ELSE UNCHANGED value

(* FocusMonitor.currentApp: handleFocusChange sets it to the target app of *)
(* the focused element and clears it for an element of any other app.     *)
(* Every element of a target app here is a text field, so it follows from *)
(* the last notification handled.                                         *)
currentApp == IF IsTarget(seenFocus) THEN BundleID(seenFocus) ELSE None

(* handleUserAction, called by the popover's buttons. With currentApp nil *)
(* the forced unwrap in the edit case stops the process, and its event    *)
(* tap with it.                                                           *)
SwiftUserAction(action, accepted) ==
    /\ impl = "swift"
    /\ review # NoReview
    /\ review' = NoReview
    /\ blurred' = blurred \ {review.id}
    /\ CASE action = "sendAnyway" ->
              /\ state' = "releasing"
              /\ ReleaseEnter(review.id)
              /\ decision' = [decision EXCEPT ![review.id] = "release"]
              /\ UNCHANGED <<value, writes, isIntercepting, tasks>>
         [] action = "useSuggestion" ->
              /\ SetCurrentText(review.suggestion, accepted)
              /\ writes' = [writes EXCEPT ![review.id] = Bump(@)]
              /\ state' = "releasing"
              /\ ReleaseEnter(review.id)
              /\ decision' = [decision EXCEPT ![review.id] = "replace"]
              /\ UNCHANGED <<isIntercepting, tasks>>
         [] action = "edit" ->
              /\ IF currentApp = None
                 THEN /\ state' = "crashed"
                      /\ isIntercepting' = FALSE
                      /\ tasks' = {}
                 ELSE /\ state' = "monitoring"
                      /\ UNCHANGED <<isIntercepting, tasks>>
              /\ decision' = [decision EXCEPT ![review.id] = "drop"]
              /\ UNCHANGED <<value, writes, events, posted>>
    /\ UNCHANGED <<impl, lifeVars, worldFocus, nextId, goVars,
                   focusedElement, seenFocus, delivered,
                   inflight, outcome, handlerCalls, expired, last>>

UserActions == {"sendAnyway", "useSuggestion", "edit"}

(* PopoverController.close called by the global mouse-down monitor: a     *)
(* click outside the popover closes it; onAction is not called.           *)
PopoverClose ==
    /\ impl = "swift"
    /\ review # NoReview
    /\ review' = NoReview
    /\ UNCHANGED <<impl, lifeVars, envVars, histVars, goVars,
                   state, isIntercepting, focusedElement, seenFocus, tasks>>

-----------------------------------------------------------------------------
(* Specification. *)

HistInit ==
    /\ delivered = [i \in Ids |-> 0]
    /\ posted = [i \in Ids |-> 0]
    /\ writes = [i \in Ids |-> 0]
    /\ inflight = {}
    /\ outcome = [i \in Ids |-> None]
    /\ decision = [i \in Ids |-> None]
    /\ handlerCalls = [i \in Ids |-> 0]
    /\ blurred = {}
    /\ expired = FALSE
    /\ last = NoAnswer

EnvInit ==
    /\ worldFocus = "finderField"
    /\ \E t \in Texts :
          value = [e \in Elements |-> IF e = "msgField" THEN t ELSE Ok]
    /\ events = <<>>
    /\ nextId = 1

GoStart ==
    /\ enabled = TRUE
    /\ monitoring = FALSE
    /\ currentElement = None
    /\ lastWasTextField = FALSE
    /\ pollPc = "wait"
    /\ mainPc = "idle"
    /\ cur = NoEvent
    /\ hText = <<>>
    /\ analysis = None
    /\ menuVal = FALSE

SwiftStart ==
    /\ state = "idle"
    /\ isIntercepting = FALSE
    /\ focusedElement = None
    /\ seenFocus = "finderField"
    /\ tasks = {}
    /\ review = NoReview

(* Both capabilities granted and both components started: main has      *)
(* reached C.runApp.                                                     *)
Started ==
    /\ accessOK = TRUE
    /\ inputOK = TRUE
    /\ loops = 1
    /\ taps = 1
    /\ startLog = [fm |-> "started", ic |-> "started"]
    /\ proc = "running"
    /\ running = TRUE
    /\ stopClosed = FALSE
    /\ pollAlive = TRUE
    /\ polled = None
    /\ hElem = None
    /\ cbOpen = FALSE

GoInit ==
    /\ impl = "go"
    /\ EnvInit
    /\ HistInit
    /\ GoStart
    /\ SwiftStart
    /\ Started

(* The Swift analyzer's answer is not computed from the text, so the long *)
(* text adds no behaviour there.                                          *)
SwiftInit ==
    /\ impl = "swift"
    /\ EnvInit
    /\ value["msgField"] # LongText
    /\ HistInit
    /\ GoStart
    /\ SwiftStart
    /\ Started

(* The key presses of the main specification: the trigger keys, plain and *)
(* with each modifier, and one other key.                                 *)
SpecKeys == { <<KeyCodeReturn, {}>>, <<KeyCodeEnter, {}>>,
              <<KeyCodeReturn, {"shift"}>>, <<KeyCodeEnter, {"shift"}>>,
              <<KeyCodeReturn, {"command"}>>, <<KeyCodeReturn, {"control"}>>,
              <<KeyCodeReturn, {"option"}>>,
              <<KeyCodeOther, {}>> }

EnvNext ==
    \/ \E e \in Elements : ChangeFocus(e)
    \/ \E km \in SpecKeys : PressKey(km[1], km[2])

GoNext ==
    \/ TapDispatch
    \/ HandlerReadText
    \/ HandlerAnalyze
    \/ HandlerReturn
    \/ PollTick
    \/ PollOnFocus
    \/ PollSetMonitoring
    \/ PollOnBlur
    \/ MenuToggle
    \/ MenuReadFocus
    \/ MenuSetMonitoring

SwiftNext ==
    \/ SwiftFocusNotify
    \/ SwiftTapDispatch
    \/ \E t \in tasks : SwiftTaskStart(t)
    \/ \E t \in tasks, r \in SwiftResults : SwiftAnalyzeReturns(t, r)
    \/ \E a \in UserActions, ok \in BOOLEAN : SwiftUserAction(a, ok)

(* The analyzer on its own: Analyze applied once to a text of up to       *)
(* MaxWords + ExtraWords words, plain, with a passive phrase in front, or *)
(* with white space around it.                                            *)
WithPassive(t) == <<"I", "t", " ", "w", "a", "s", " ">> \o t

Padded(t) == <<" ">> \o t \o <<" ", " ">>

AnalyzerTexts ==
    UNION { {WordsText(n), WithPassive(WordsText(n)), Padded(WordsText(n))} :
              n \in 0..(MaxWords + ExtraWords) }

AnalyzerInit ==
    /\ impl = "analyzer"
    /\ worldFocus = "finderField"
    /\ value = [e \in Elements |-> Ok]
    /\ events = <<>>
    /\ nextId = 1
    /\ HistInit
    /\ enabled = TRUE
    /\ monitoring = FALSE
    /\ currentElement = None
    /\ lastWasTextField = FALSE
    /\ pollPc = "wait"
    /\ mainPc = "call"
    /\ cur = NoEvent
    /\ hText \in AnalyzerTexts
    /\ analysis = None
    /\ menuVal = FALSE
    /\ SwiftStart
    /\ Started

(* analysis, err := hemingway.Analyze(ctx, text, appCtx) *)
AnalyzeCall ==
    /\ impl = "analyzer"
    /\ mainPc = "call"
    /\ analysis' = Analyze(hText)
    /\ mainPc' = "done"
    /\ UNCHANGED <<impl, lifeVars, envVars, swVars, histVars, enabled, monitoring,
                   currentElement, lastWasTextField, pollPc, cur, hText, menuVal>>

AnalyzerSpec == AnalyzerInit /\ [][AnalyzeCall]_vars

(* The Go program. *)
GoSpec == GoInit /\ [][EnvNext \/ DeadlineExpires \/ GoNext]_vars

(* The Go program from the first statement of main, with either           *)
(* capability granted or not.                                             *)
StartInit ==
    /\ impl = "go"
    /\ EnvInit
    /\ HistInit
    /\ GoStart
    /\ SwiftStart
    /\ accessOK \in BOOLEAN
    /\ inputOK \in BOOLEAN
    /\ loops = 0
    /\ taps = 0
    /\ startLog = [fm |-> None, ic |-> None]
    /\ proc = "init"
    /\ running = FALSE
    /\ stopClosed = FALSE
    /\ pollAlive = FALSE
    /\ polled = None
    /\ hElem = None
    /\ cbOpen = FALSE

StartSpec ==
    StartInit /\ [][\/ MainStartFocus \/ MainStartInterceptor \/ DeliverUntapped
                    \/ EnvNext \/ DeadlineExpires \/ GoNext]_vars

(* The focus monitor as main constructs and wires it, before Start, with  *)
(* its owner calling Start, Stop, CurrentText and SetCurrentText.         *)
FocusInit ==
    /\ impl = "go"
    /\ worldFocus = "finderField"
    /\ value = [e \in FocusElements |-> Ok]
    /\ events = <<>>
    /\ nextId = 1
    /\ HistInit
    /\ GoStart
    /\ SwiftStart
    /\ accessOK = TRUE
    /\ inputOK = TRUE
    /\ loops = 0
    /\ taps = 1
    /\ startLog = [fm |-> None, ic |-> "started"]
    /\ proc = "running"
    /\ running = FALSE
    /\ stopClosed = FALSE
    /\ pollAlive = FALSE
    /\ polled = None
    /\ hElem = None
    /\ cbOpen = FALSE

FocusNext ==
    \/ \E e \in FocusElements : ChangeFocus(e)
    \/ FMStart
    \/ FMStop
    \/ PollTickTraced
    \/ PollOnFocus
    \/ PollSetMonitoring
    \/ PollOnBlur
    \/ PollExit
    \/ GetElement("value")
    \/ CurrentTextValue
    \/ GetElement("setValue")
    \/ SetCurrentTextValue(Empty)

FocusSpec == FocusInit /\ [][FocusNext]_vars

(* The focus monitor constructed before the accessibility permission is  *)
(* granted, with its owner calling Start and Stop.                        *)
RetryInit ==
    /\ impl = "go"
    /\ worldFocus = "finderField"
    /\ value = [e \in FocusElements |-> Ok]
    /\ events = <<>>
    /\ nextId = 1
    /\ HistInit
    /\ GoStart
    /\ SwiftStart
    /\ accessOK = FALSE
    /\ inputOK = TRUE
    /\ loops = 0
    /\ taps = 1
    /\ startLog = [fm |-> None, ic |-> "started"]
    /\ proc = "running"
    /\ running = FALSE
    /\ stopClosed = FALSE
    /\ pollAlive = FALSE
    /\ polled = None
    /\ hElem = None
    /\ cbOpen = FALSE

RetryNext ==
    \/ \E e \in FocusElements : ChangeFocus(e)
    \/ GrantAccessibility
    \/ FMStart
    \/ FMStop
    \/ PollTickTraced
    \/ PollOnFocus
    \/ PollSetMonitoring
    \/ PollOnBlur
    \/ PollExit

RetrySpec == RetryInit /\ [][RetryNext]_vars

(* The two components constructed and wired by main, not yet started,    *)
(* with their owner calling Start on each any number of times and Stop on *)
(* the interceptor.                                                       *)
IdemInit ==
    /\ impl = "go"
    /\ worldFocus = "finderField"
    /\ value = [e \in FocusElements |-> Ok]
    /\ events = <<>>
    /\ nextId = 1
    /\ HistInit
    /\ GoStart
    /\ SwiftStart
    /\ accessOK = TRUE
    /\ inputOK = TRUE
    /\ loops = 0
    /\ taps = 0
    /\ startLog = [fm |-> None, ic |-> None]
    /\ proc = "stopped"
    /\ running = FALSE
    /\ stopClosed = FALSE
    /\ pollAlive = FALSE
    /\ polled = None
    /\ hElem = None
    /\ cbOpen = FALSE

IdemNext ==
    \/ \E e \in Elements : ChangeFocus(e)
    \/ PressKey(KeyCodeReturn, {})
    \/ FMStart
    \/ InterceptorStart
    \/ InterceptorStop
    \/ TapDispatch
    \/ DeliverUntapped
    \/ HandlerReadText
    \/ HandlerAnalyze
    \/ HandlerReturn
    \/ PollTick
    \/ PollOnFocus
    \/ PollSetMonitoring
    \/ PollOnBlur

IdemSpec == IdemInit /\ [][IdemNext]_vars

(* The Go program with the other key pressed with every set of           *)
(* modifiers, beside the plain trigger keys; one text, two fields, the    *)
(* menu left alone.                                                       *)
KeyInit == GoInit /\ value["msgField"] = Ok

KeyNext ==
    \/ \E e \in {"msgField", "finderField"} : ChangeFocus(e)
    \/ \E m \in ModifierSets : PressKey(KeyCodeOther, m)
    \/ \E k \in {KeyCodeReturn, KeyCodeEnter} : PressKey(k, {})
    \/ TapDispatch
    \/ HandlerReadText
    \/ HandlerAnalyze
    \/ HandlerReturn
    \/ PollTick
    \/ PollOnFocus
    \/ PollSetMonitoring
    \/ PollOnBlur

KeySpec == KeyInit /\ [][KeyNext]_vars

(* The Go program with Interceptor.Stop called from a thread other than  *)
(* the one that runs the tap callback.                                    *)
StopNext ==
    \/ \E e \in Elements : ChangeFocus(e)
    \/ \E km \in SpecKeys : PressKey(km[1], km[2])
    \/ TapFetchCallback
    \/ TapHandleKey
    \/ HandlerReadText
    \/ HandlerAnalyze
    \/ HandlerReturn
    \/ PollTick
    \/ PollOnFocus
    \/ PollSetMonitoring
    \/ PollOnBlur
    \/ InterceptorStop
    \/ DeliverUntapped

StopSpec == KeyInit /\ [][StopNext]_vars

(* The Go program with Interceptor.ReleaseEnter called by its owner. *)
ReleaseSpec ==
    GoInit /\ [][EnvNext \/ DeadlineExpires \/ GoNext \/ InterceptorReleaseEnter]_vars

(* The Swift coordinator. *)
SwiftSpec == SwiftInit /\ [][EnvNext \/ DeadlineExpires \/ SwiftNext]_vars

(* The design's program with the approval popover of popover.swift, which *)
(* a click outside closes.                                                *)
PopoverSpec == SwiftInit /\ [][EnvNext \/ DeadlineExpires \/ SwiftNext \/ PopoverClose]_vars

(* Either realisation. *)
Init == GoInit \/ SwiftInit

Next == EnvNext \/ DeadlineExpires \/ GoNext \/ SwiftNext

Spec == Init /\ [][Next]_vars

-----------------------------------------------------------------------------
(* Properties. *)

(* The presses whose handler has run and has not yet let the key go. *)
PendingIntercepts ==
    {id \in Ids : handlerCalls[id] > 0 /\ decision[id] \in {None, "hold"}}

(* The tap callback last handled a trigger key with Shift held. *)
ShiftTrigger ==
    /\ last.ev.id # 0
    /\ IsEnterKey(last.ev.key)
    /\ "shift" \in last.ev.mods

(* C1: in the Go program at most one key press is held back by the handler *)
(* and at most one validation is in flight at any time.                    *)
C1_SingleIntercept ==
    /\ Cardinality(PendingIntercepts) <= 1
    /\ Cardinality(inflight) <= 1

(* A validation is in flight and a second plain trigger press waits at the *)
(* armed tap.                                                              *)
C1_Witness ==
    /\ impl = "go"
    /\ mainPc = "analyze"
    /\ inflight = {cur.id}
    /\ monitoring
    /\ events # <<>>
    /\ IsPlainTrigger(Head(events))

C3_FlaggedIsHeld ==
    [][\A id \in Ids :
          (decision[id] = None /\ decision'[id] # None
                /\ outcome'[id] = "flagged") =>
             /\ decision'[id] = "hold"
             /\ delivered'[id] = delivered[id]
             /\ posted'[id] = posted[id]]_vars

(* C4: once the focus has left the field while the validation of a press *)
(* was in flight, no later step applies a decision for that press, writes *)
(* the field for it, passes its key on or posts it again.                 *)
C4_BlurCancels ==
    [][\A id \in blurred :
          /\ decision'[id] = decision[id]
          /\ writes'[id] = writes[id]
          /\ delivered'[id] = delivered[id]
          /\ posted'[id] = posted[id]]_vars

(* C5: the completion of a validation that was in flight when the focus *)
(* left is discarded: the step that takes the result records no outcome *)
(* for the press and leaves the handler and the coordinator where they  *)
(* were.                                                                *)
C5_LateCompletionDiscarded ==
    [][\A id \in blurred :
          (id \in inflight /\ id \notin inflight') =>
             /\ outcome'[id] = outcome[id]
             /\ analysis' = analysis
             /\ state' = state
             /\ review' = review]_vars

(* C6: a validation that is still in flight when its deadline has passed *)
(* ends as failed.                                                       *)
C6_DeadlineFails ==
    [][\A id \in inflight :
          (expired /\ id \notin inflight') => outcome'[id] = "failed"]_vars

(* C7: each press is delivered at most once, at most one synthetic key is *)
(* posted for it, never both the original and a synthetic one.            *)
C7_DeliveredAtMostOnce ==
    \A id \in Ids :
        /\ delivered[id] <= 1
        /\ posted[id] <= 1

(* C8: a plain trigger press that arrived while an intercept was open is *)
(* dropped by the tap callback: it is swallowed, the handler does not run  *)
(* for it and it is not delivered.                                         *)
C8_LatePressDropped ==
    (last.ev.late /\ ~last.ev.synth) =>
        /\ ~last.handler
        /\ last.answer = "swallow"
        /\ handlerCalls[last.ev.id] = 0
        /\ delivered[last.ev.id] = 0

(* C9: while a validation is in flight the key-event callback that      *)
(* started it has already returned.                                     *)
C9_CallbackReturnsFirst ==
    \A id \in inflight : ~(impl = "go" /\ GoInterceptOpen /\ cur.id = id)

(* C10: a trigger key pressed with Shift is never swallowed: the callback *)
(* answers pass, the handler is not invoked for it, nothing is posted for  *)
(* it and it is delivered exactly once.                                    *)
C10_ShiftPasses ==
    ShiftTrigger =>
        /\ last.answer = "pass"
        /\ ~last.handler
        /\ handlerCalls[last.ev.id] = 0
        /\ decision[last.ev.id] = None
        /\ posted[last.ev.id] = 0
        /\ delivered[last.ev.id] = 1

(* A Shift trigger press went through an armed tap after another press had *)
(* been intercepted.                                                       *)
C10_Witness ==
    /\ ShiftTrigger
    /\ delivered[last.ev.id] = 1
    /\ monitoring \/ isIntercepting
    /\ \E other \in Ids : handlerCalls[other] > 0

(* The tap callback last handled a trigger key with Command, Control or *)
(* Option held.                                                          *)
CommandTrigger ==
    /\ last.ev.id # 0
    /\ IsEnterKey(last.ev.key)
    /\ last.ev.mods \cap {"command", "control", "option"} # {}

(* C11: a trigger key pressed with Command, Control or Option is passed   *)
(* through untouched: the callback answers pass, the handler is not       *)
(* invoked, no validation is started for it and it is delivered once.     *)
C11_CommandPasses ==
    CommandTrigger =>
        /\ last.answer = "pass"
        /\ ~last.handler
        /\ handlerCalls[last.ev.id] = 0
        /\ last.ev.id \notin inflight
        /\ outcome[last.ev.id] = None
        /\ delivered[last.ev.id] = 1

(* The element is a text field of a target application. *)
MonitoredField(e) == IsTarget(e) /\ IsTextField(e)

(* C12: when the handler runs for an intercepted trigger key while the   *)
(* focused monitored field is empty, it releases the key at once and no  *)
(* validation is started.                                                *)
C12_EmptyReleased ==
    [][(/\ impl = "go"
        /\ mainPc = "handler" /\ mainPc' # "handler"
        /\ MonitoredField(worldFocus)
        /\ value[worldFocus] = <<>>) =>
           /\ cur.id \notin inflight'
           /\ decision'[cur.id] = "release"
           /\ delivered'[cur.id] = 1]_vars

(* Messages under this many words are not to be analysed. *)
MinWords == 10

(* C13: when the handler runs for an intercepted trigger key and reads a *)
(* non-empty text of fewer than MinWords words, it releases the key at   *)
(* once and no validation is started.                                    *)
C13_ShortReleased ==
    [][(/\ impl = "go"
        /\ mainPc = "handler" /\ mainPc' # "handler"
        /\ CurrentText # <<>>
        /\ AnalysisOf[CurrentText].wordCount < MinWords) =>
           /\ cur.id \notin inflight'
           /\ decision'[cur.id] = "release"
           /\ delivered'[cur.id] = 1]_vars

(* C14: when the user chooses the suggestion, the field write is issued *)
(* and the key is posted once, never without the write; afterwards no   *)
(* further key is posted and no further write is issued for the press.  *)
C14_WriteThenOneKey ==
    [][\A id \in Ids :
          /\ (decision[id] = "hold" /\ decision'[id] = "replace") =>
                /\ writes'[id] = 1
                /\ posted'[id] = 1
                /\ \A e \in Elements :
                       value'[e] \in {value[e], review.suggestion}
          /\ decision[id] = "replace" =>
                /\ posted'[id] = posted[id]
                /\ writes'[id] = writes[id]]_vars

(* C15: when the user chooses to send anyway, the key is posted once and *)
(* no field is written; afterwards no further key is posted and nothing  *)
(* is written for the press.                                             *)
C15_SendAnywayOneKey ==
    [][\A id \in Ids :
          /\ (decision[id] = "hold" /\ decision'[id] = "release") =>
                /\ posted'[id] = 1
                /\ writes'[id] = 0
                /\ value' = value
          /\ (decision[id] = "release" /\ outcome[id] = "flagged"
                  /\ writes[id] = 0) =>
                /\ posted'[id] = posted[id]
                /\ writes'[id] = 0]_vars

(* C16: when the user chooses to edit, the intercept is dropped: no key is *)
(* posted and nothing is written for the press, the popover is gone and    *)
(* the coordinator is monitoring again; afterwards no key is posted or     *)
(* delivered for the press.                                                *)
C16_EditDrops ==
    [][\A id \in Ids :
          /\ (decision[id] = "hold" /\ decision'[id] = "drop") =>
                /\ posted'[id] = 0
                /\ writes'[id] = 0
                /\ value' = value
                /\ review' = NoReview
                /\ state' = "monitoring"
          /\ decision[id] = "drop" =>
                /\ posted'[id] = 0
                /\ delivered'[id] = 0
                /\ decision'[id] = "drop"]_vars

(* C17: a release with no swallowed key pending is a no-op: while no press *)
(* is held, no step puts a synthetic key on the event stream.             *)
C17_ReleaseWithoutPendingIsNoOp ==
    [][(\A id \in Ids : decision[id] # "hold") =>
          \A i \in 1..Len(events') : events'[i].synth => 
              \E j \in 1..Len(events) : events[j] = events'[i]]_vars

(* C18: when the write of a chosen suggestion fails, the failure is        *)
(* reported (the coordinator records an error), the key is still posted    *)
(* exactly once for the press and the field keeps its text.                *)
C18_FailedWriteFallsBack ==
    [][\A id \in Ids :
          (/\ decision[id] = "hold"
           /\ decision'[id] = "replace"
           /\ \/ focusedElement = None
              \/ value'[focusedElement] # review.suggestion) =>
                /\ state' = "error"
                /\ posted'[id] = 1
                /\ value' = value]_vars

(* C19: whenever the interceptor is monitoring, the focus monitor holds a  *)
(* monitored element; stated between callbacks, when neither the poll     *)
(* loop nor the menu callback is part-way through an update.              *)
C19_MonitoringImpliesElement ==
    (impl = "go" /\ pollPc = "wait" /\ mainPc = "idle" /\ monitoring)
        => currentElement # None

(* C20: a decision applied while the focus stays on the monitored field   *)
(* leaves the coordinator monitoring, and the next plain trigger pressed   *)
(* there, once the coordinator handles it with nothing else pending, is    *)
(* validated again.                                                        *)
C20_BackToMonitoring ==
    [][/\ \A id \in Ids :
            (/\ decision[id] = "hold"
             /\ decision'[id] \in {"release", "replace", "drop"}
             /\ MonitoredField(worldFocus)
             /\ seenFocus = worldFocus) => state' = "monitoring"
       /\ \A t \in tasks :
            (/\ t.pc = "start"
             /\ ~t.ev.synth
             /\ t \notin tasks'
             /\ tasks = {t}
             /\ review = NoReview
             /\ inflight = {}
             /\ events = <<>>
             /\ handlerCalls[t.ev.id] = 0
             /\ MonitoredField(worldFocus)
             /\ seenFocus = worldFocus
             /\ \E id \in Ids : decision[id] \in {"release", "replace", "drop"})
                => t.ev.id \in inflight']_vars

(* C24: once a toggle to disabled has completed, and until the next       *)
(* toggle, the interceptor is not monitoring.                             *)
C24_DisabledNotMonitoring ==
    (impl = "go" /\ ~enabled /\ mainPc # "menuOff") => ~monitoring

C26_ApprovedHasNoIssues ==
    (impl = "analyzer" /\ mainPc = "done" /\ analysis.approved) =>
        /\ analysis.issues = <<>>
        /\ analysis.suggestion = <<>>

(* C21: with the accessibility or the input-monitoring capability        *)
(* missing the program never activates: no poll loop runs, no focus event *)
(* is emitted, the event callback is never registered and the interceptor *)
(* is never armed.                                                        *)
C21_NoCapabilityNoActivation ==
    (impl = "go" /\ (~accessOK \/ ~inputOK)) =>
        /\ ~pollAlive
        /\ pollPc = "wait"
        /\ currentElement = None
        /\ ~monitoring
        /\ ~TapInstalled

(* C22: a poll that cannot read the focused element changes nothing: no  *)
(* focus or blur callback starts, and the current element, the            *)
(* last-was-text-field flag and the monitoring flag stay as they are.     *)
C22_UnreadableIsNoChange ==
    [][(polled # "unreadable" /\ polled' = "unreadable") =>
          /\ pollPc' = pollPc
          /\ currentElement' = currentElement
          /\ lastWasTextField' = lastWasTextField
          /\ monitoring' = monitoring]_vars

C22_Witness ==
    /\ polled = "unreadable"
    /\ pollPc = "wait"
    /\ currentElement # None
    /\ lastWasTextField
    /\ monitoring
    /\ ~MonitoredField(worldFocus)

(* C23: the focus monitor can be restarted: Stop never fails, and a       *)
(* monitor that is running has a poll loop that has not been told to      *)
(* stop.                                                                  *)
C23_Restartable ==
    /\ proc # "panicked"
    /\ (impl = "go" /\ running /\ accessOK) => ~stopClosed

(* C27: once the poll loop has read a monitored text field as focused and *)
(* finished its tick, the current element is that field.                  *)
C27_DirectSwitchResets ==
    (/\ impl = "go" /\ running /\ pollAlive
     /\ pollPc = "wait"
     /\ polled \in FocusElements
     /\ MonitoredField(polled)) => currentElement = polled

(* C28: a secure field never becomes the current element and the          *)
(* interceptor is never armed for it.                                     *)
C28_SecureNotMonitored ==
    /\ currentElement \in FocusElements => ~Secure(currentElement)
    /\ (polled \in FocusElements /\ Secure(polled) /\ pollPc = "wait")
          => ~monitoring

(* C29: no Value or SetValue call is made on an element that has been     *)
(* released.                                                              *)
C29_NoUseAfterRelease ==
    [][~(/\ hElem = "released"
         /\ mainPc \in {"value", "setValue"}
         /\ mainPc' = "idle")]_vars

(* C30: the focus callback starts only when the element read as focused   *)
(* belongs to a target application and has the role AXTextField or        *)
(* AXTextArea, and only then does the callback arm the interceptor.       *)
C30_FocusOnlyForTargetTextField ==
    [][/\ (pollPc = "wait" /\ pollPc' = "onFocus") =>
            /\ polled' \in FocusElements
            /\ BundleID(polled') \in TargetBundleIDs
            /\ Role(polled') \in {"AXTextField", "AXTextArea"}
            /\ currentElement' = polled'
       /\ (impl = "go" /\ ~monitoring /\ monitoring') =>
            /\ polled \in FocusElements
            /\ BundleID(polled) \in TargetBundleIDs
            /\ Role(polled) \in {"AXTextField", "AXTextArea"}]_vars

C30_Witness ==
    /\ pollPc = "wait"
    /\ polled = "msgButton"
    /\ ~monitoring
    /\ currentElement = None
    /\ ~lastWasTextField
    /\ pollAlive

(* C31: the callbacks of one poll loop alternate, starting with focus:    *)
(* the focus callback is called only when no focus callback is unmatched, *)
(* the blur callback only when one is.                                    *)
C31_CallbacksAlternate ==
    [][/\ (pollPc = "wait" /\ pollPc' = "onFocus") => ~cbOpen
       /\ (pollPc = "wait" /\ pollPc' = "onBlur") => cbOpen]_vars

C31_Witness ==
    /\ impl = "go"
    /\ pollPc = "onBlur"
    /\ ~cbOpen
    /\ lastWasTextField

(* C32: a synthetic key posted by a release passes the tap: the callback  *)
(* answers pass for it, the handler is not invoked and no validation      *)
(* starts for it.                                                         *)
C32_SyntheticNotIntercepted ==
    last.ev.synth =>
        /\ ~last.handler
        /\ last.answer = "pass"
        /\ mainPc \notin {"handler", "analyze", "decide"}

(* C33: a key-down whose key code is neither Return nor Enter is         *)
(* returned by the callback whatever the state and the modifiers: the     *)
(* handler is not invoked and the key reaches the application once.       *)
C33_OtherKeysPass ==
    (last.ev.id # 0 /\ last.ev.key \notin {KeyCodeReturn, KeyCodeEnter}) =>
        /\ last.answer = "pass"
        /\ ~last.handler
        /\ handlerCalls[last.ev.id] = 0
        /\ delivered[last.ev.id] = 1

C33_Witness ==
    /\ impl = "go"
    /\ last.ev.key = KeyCodeOther
    /\ last.ev.mods = {"command", "option"}
    /\ monitoring
    /\ delivered[last.ev.id] = 1

(* C34: once Interceptor.Stop has returned the handler is not invoked     *)
(* again.                                                                 *)
C34_NoHandlerAfterStop ==
    [][proc = "stopped" => handlerCalls' = handlerCalls]_vars

(* C35: a FocusMonitor.Start that fails, the system-wide element being   *)
(* unavailable, leaves the monitor not marked running.                    *)
C35_FailedStartNotRunning ==
    [][(impl = "go" /\ ~running /\ ~accessOK /\ accessOK' = accessOK) => ~running']_vars

(* C36: while the focus monitor is running no Start starts another poll  *)
(* loop, while the interceptor has its event tap no Start creates another *)
(* tap, and a Start in either case returns nil.                           *)
C36_StartIdempotent ==
    [][/\ (impl = "go" /\ running /\ running') => loops' = loops
       /\ (impl = "go" /\ proc = "running" /\ proc' = "running") => taps' = taps
       /\ (running /\ startLog'.fm # startLog.fm) => startLog'.fm = "already"
       /\ (proc = "running" /\ startLog'.ic # startLog.ic) =>
              startLog'.ic = "already"]_vars

C36_Witness ==
    /\ impl = "go"
    /\ startLog = [fm |-> "already", ic |-> "already"]
    /\ loops = 1
    /\ taps = 1
    /\ lastWasTextField
    /\ monitoring

(* C37: an approval popover is closed only by a step that delivers the   *)
(* user's action for the press it shows.                                  *)
C37_ClosedOnlyByAction ==
    [][(impl = "swift" /\ review # NoReview /\ review' = NoReview) =>
          decision'[review.id] \in {"release", "replace", "drop"}]_vars

(* C38: with the menubar enabled, a monitored element held by the focus  *)
(* monitor and no focus, blur or toggle callback in progress, the          *)
(* interceptor is monitoring.                                             *)
C38_EnabledAndFocusedIsArmed ==
    (/\ impl = "go"
     /\ enabled
     /\ currentElement # None
     /\ pollPc = "wait"
     /\ mainPc \notin {"menuRead", "menuSet", "menuOff"}) => monitoring

=============================================================================
